---- MODULE Spec2Model ----
(***************************************************************************)
(* Exam submission API: POST submissions/ (ExamSubmissionAPIView.post,     *)
(* ExamSubmissionCreateSerializer) and GET exams/ (ExamFetchAPIView.get,   *)
(* ExamSubmissionSerializer) over the tables of exam/models.py.            *)
(*                                                                         *)
(* The store runs in Django's default autocommit mode: the source opens no *)
(* transaction.atomic block, so every ORM statement commits on its own.    *)
(* bulk_create is itself one atomic statement.                             *)
(*                                                                         *)
(* One POST is in progress at a time; a GET may run between its two        *)
(* commits and reads the store in one step.  A response is sent before the *)
(* next handler step starts.                                               *)
(***************************************************************************)
EXTENDS Integers, Sequences, FiniteSets, TLC

(***************************************************************************)
(* Bounds of the model.                                                    *)
(***************************************************************************)
\* longest answer batch a request carries
MaxAnswers == 2
\* number of ExamSubmission rows after which no further POST is started
MaxSubmissions == 2

(***************************************************************************)
(* Generic helpers.                                                        *)
(***************************************************************************)
Range(s) == {s[i] : i \in 1..Len(s)}

SetMin(S) == CHOOSE x \in S : \A y \in S : x <= y

\* Python sorted(...) over a set of integers: the ascending list.
RECURSIVE sorted(_)
sorted(S) ==
    IF S = {} THEN <<>>
    ELSE LET m == SetMin(S) IN <<m>> \o sorted(S \ {m})

\* All sequences over S of length 0..n.
SeqsUpTo(S, n) == UNION {[1..k -> S] : k \in 0..n}

(***************************************************************************)
(* Read-only tables owned by collaborators (exam management, question      *)
(* bank, students).  Exam 1 has two questions; exam 2 binds Question 1 to  *)
(* two numbered slots, which unique_together (exam, number) permits; exam 3*)
(* has no ExamQuestion row; exam 4 has three questions.                    *)
(***************************************************************************)
ExamTable == {1, 2, 3, 4}

StudentTable == {1, 2}

\* Rows in primary-key order; exam 2's rows are not in number order.
ExamQuestionTable ==
    << [id |-> 1, exam |-> 1, question |-> 1, number |-> 1],
       [id |-> 2, exam |-> 1, question |-> 2, number |-> 2],
       [id |-> 3, exam |-> 2, question |-> 1, number |-> 2],
       [id |-> 4, exam |-> 2, question |-> 1, number |-> 1],
       [id |-> 5, exam |-> 4, question |-> 4, number |-> 1],
       [id |-> 6, exam |-> 4, question |-> 2, number |-> 2],
       [id |-> 7, exam |-> 4, question |-> 1, number |-> 3] >>

\* Alternative rows of the question bank.
AlternativeTable ==
    { [question |-> 1, option |-> 1, is_correct |-> TRUE],
      [question |-> 1, option |-> 2, is_correct |-> FALSE],
      [question |-> 2, option |-> 1, is_correct |-> FALSE],
      [question |-> 2, option |-> 2, is_correct |-> TRUE],
      [question |-> 4, option |-> 3, is_correct |-> TRUE] }

\* question.utils.AlternativesChoices: the option codes 1-5.
AlternativesChoices == 1..5

ExamQuestionById(eqid) ==
    CHOOSE r \in Range(ExamQuestionTable) : r.id = eqid

(***************************************************************************)
(* ExamQuestion.objects.filter(exam=exam).values("id", "question_id"):     *)
(* the exam's rows in Meta.ordering = ['number'] order.                    *)
(***************************************************************************)
RECURSIVE OrderByNumber(_)
OrderByNumber(rows) ==
    IF rows = {} THEN <<>>
    ELSE LET r == CHOOSE x \in rows : \A y \in rows : x.number <= y.number
         IN  <<r>> \o OrderByNumber(rows \ {r})

exam_question_rows(exam) ==
    OrderByNumber({r \in Range(ExamQuestionTable) : r.exam = exam})

\* {row["question_id"]: row["id"] for row in rows}: a later row overwrites
\* an earlier one with the same question_id.
RECURSIVE DictOfRows(_)
DictOfRows(rows) ==
    IF rows = <<>> THEN <<>>
    ELSE LET n    == Len(rows)
             head == DictOfRows(SubSeq(rows, 1, n - 1))
             last == rows[n]
         IN  [q \in (DOMAIN head) \cup {last.question} |->
                 IF q = last.question THEN last.id ELSE head[q]]

(***************************************************************************)
(* ExamSubmissionCreateSerializer: field validation, then validate().      *)
(***************************************************************************)
\* IntegerField(min_value=1) x2, answers allow_empty=False, and per answer
\* IntegerField(min_value=1) and ChoiceField(AlternativesChoices).
fields_valid(data) ==
    /\ data.exam_id >= 1
    /\ data.student_id >= 1
    /\ data.answers # <<>>
    /\ \A i \in 1..Len(data.answers) :
          /\ data.answers[i].question_id >= 1
          /\ data.answers[i].answer \in AlternativesChoices

NoError == "none"

Rejected(err, ids) == [error |-> err, payload |-> ids, map |-> <<>>]

\* len(provided_question_ids) != len(set(provided_question_ids))
has_duplicates(provided) == Len(provided) # Cardinality(Range(provided))

\* Variant: only the first offending id is reported.
invalid_question_ids_first_only(provided, exam_question_ids) ==
    LET all == sorted(Range(provided) \ exam_question_ids)
    IN  IF all = <<>> THEN <<>> ELSE <<all[1]>>

\* sorted(set(provided_question_ids) - set(exam_question_ids))
invalid_question_ids(provided, exam_question_ids) ==
    sorted(Range(provided) \ exam_question_ids)

\* sorted(set(exam_question_ids) - set(provided_question_ids))
missing_question_ids(provided, exam_question_ids) ==
    sorted(exam_question_ids \ Range(provided))

\* Variant: the completeness check (missing_question_ids) is left out.
validate_without_missing(attrs) ==
    LET rows     == exam_question_rows(attrs.exam_id)
        qmap     == DictOfRows(rows)
        eq_ids   == {rows[i].question : i \in 1..Len(rows)}
        provided == [i \in 1..Len(attrs.answers) |-> attrs.answers[i].question_id]
        invalid  == invalid_question_ids(provided, eq_ids)
    IN  IF attrs.exam_id \notin ExamTable THEN Rejected("ExamNotFound", <<>>)
        ELSE IF attrs.student_id \notin StudentTable
             THEN Rejected("StudentNotFound", <<>>)
        ELSE IF rows = <<>> THEN Rejected("ExamHasNoQuestions", <<>>)
        ELSE IF has_duplicates(provided) THEN Rejected("DuplicateAnswer", <<>>)
        ELSE IF invalid # <<>> THEN Rejected("UnknownQuestionForExam", invalid)
        ELSE [error |-> NoError, payload |-> <<>>, map |-> qmap]

\* Variant: the membership check runs before the duplicate check.
validate_membership_first(attrs) ==
    LET rows     == exam_question_rows(attrs.exam_id)
        qmap     == DictOfRows(rows)
        eq_ids   == {rows[i].question : i \in 1..Len(rows)}
        provided == [i \in 1..Len(attrs.answers) |-> attrs.answers[i].question_id]
        invalid  == invalid_question_ids(provided, eq_ids)
        missing  == missing_question_ids(provided, eq_ids)
    IN  IF attrs.exam_id \notin ExamTable THEN Rejected("ExamNotFound", <<>>)
        ELSE IF attrs.student_id \notin StudentTable
             THEN Rejected("StudentNotFound", <<>>)
        ELSE IF rows = <<>> THEN Rejected("ExamHasNoQuestions", <<>>)
        ELSE IF invalid # <<>> THEN Rejected("UnknownQuestionForExam", invalid)
        ELSE IF has_duplicates(provided) THEN Rejected("DuplicateAnswer", <<>>)
        ELSE IF missing # <<>> THEN Rejected("MissingAnswers", missing)
        ELSE [error |-> NoError, payload |-> <<>>, map |-> qmap]

validate(attrs) ==
    LET rows     == exam_question_rows(attrs.exam_id)
        qmap     == DictOfRows(rows)
        eq_ids   == {rows[i].question : i \in 1..Len(rows)}
        provided == [i \in 1..Len(attrs.answers) |-> attrs.answers[i].question_id]
        invalid  == invalid_question_ids(provided, eq_ids)
        missing  == missing_question_ids(provided, eq_ids)
    IN  IF attrs.exam_id \notin ExamTable THEN Rejected("ExamNotFound", <<>>)
        ELSE IF attrs.student_id \notin StudentTable
             THEN Rejected("StudentNotFound", <<>>)
        ELSE IF rows = <<>> THEN Rejected("ExamHasNoQuestions", <<>>)
        ELSE IF has_duplicates(provided) THEN Rejected("DuplicateAnswer", <<>>)
        ELSE IF invalid # <<>> THEN Rejected("UnknownQuestionForExam", invalid)
        ELSE IF missing # <<>> THEN Rejected("MissingAnswers", missing)
        ELSE [error |-> NoError, payload |-> <<>>, map |-> qmap]

\* serializer.is_valid(): field errors come first, validate() runs only on
\* field-valid data.
is_valid(data) ==
    IF ~fields_valid(data) THEN Rejected("FieldInvalid", <<>>)
    ELSE validate(data)

(***************************************************************************)
(* The store: the ExamSubmission and ExamSubmissionAnswer tables.          *)
(***************************************************************************)
\* ExamSubmission.objects.create(exam=exam, student=student): the row gets
\* the next primary key and created_at = now (auto_now_add).
create_submission(tbl, exam, student, now) ==
    Append(tbl, [id |-> Len(tbl) + 1, exam |-> exam, student |-> student,
                 created_at |-> now])

\* timezone.now() as auto_now_add reads it: the clock has not moved since
\* the newest row was stamped, or it has.  Only the order and the equality
\* of timestamps matter, so one step forward stands for any later time.
\* Time 0 is the past: a row stamped 0 was there before the server started.
timezone_now(tbl) ==
    LET last == IF tbl = <<>> THEN 0 ELSE tbl[Len(tbl)].created_at
    IN  IF last = 0 THEN {1} ELSE {last, last + 1}

\* The list comprehension handed to bulk_create: one row per answer, keyed
\* through question_id_to_exam_question_id.
answer_rows(submission, batch, qmap) ==
    [i \in 1..Len(batch) |->
        [submission    |-> submission,
         exam_question |-> qmap[batch[i].question_id],
         answer        |-> batch[i].answer]]

\* unique_together = ("submission", "exam_question")
unique_together_ok(tbl) ==
    \A i, j \in 1..Len(tbl) :
        (tbl[i].submission = tbl[j].submission
            /\ tbl[i].exam_question = tbl[j].exam_question) => i = j

\* Variant: no unique index, and the batch is sent again after a timeout
\* whose first attempt had gone through.
bulk_create_resent(tbl, rows) == [ok |-> TRUE, table |-> tbl \o rows \o rows]

\* ExamSubmissionAnswer.objects.bulk_create(rows): all rows or, on an
\* IntegrityError, none.
bulk_create(tbl, rows) ==
    IF unique_together_ok(tbl \o rows)
    THEN [ok |-> TRUE, table |-> tbl \o rows]
    ELSE [ok |-> FALSE, table |-> tbl]

(***************************************************************************)
(* ExamSubmissionSerializer / ExamSubmissionAnswerSerializer: grading.     *)
(***************************************************************************)
\* Exists(Alternative.objects.filter(question=..., option=..., is_correct=True))
is_correct(row) ==
    \E alt \in AlternativeTable :
        /\ alt.question = ExamQuestionById(row.exam_question).question
        /\ alt.option = row.answer
        /\ alt.is_correct

get_total_questions(sub) ==
    Cardinality({i \in 1..Len(ExamQuestionTable) : ExamQuestionTable[i].exam = sub.exam})

get_correct_answers(sub, answersTbl) ==
    Cardinality({i \in 1..Len(answersTbl) :
                    answersTbl[i].submission = sub.id /\ is_correct(answersTbl[i])})

\* Variant: the division by total is forgotten.
get_correct_percentage_undivided(sub, answersTbl) ==
    [num |-> get_correct_answers(sub, answersTbl) * 100, den |-> 1]

\* (correct / total) * 100 as the exact ratio num/den; 0.0 is 0/1.  The
\* float result is 0.0 exactly when num = 0 and is at most 100.0 exactly
\* when num <= 100 * den.
get_correct_percentage(sub, answersTbl) ==
    LET total == get_total_questions(sub)
    IN  IF total = 0 THEN [num |-> 0, den |-> 1]
        ELSE [num |-> get_correct_answers(sub, answersTbl) * 100, den |-> total]

\* One serialized answer.
answer_data(row) ==
    [exam_question   |-> row.exam_question,
     question_id     |-> ExamQuestionById(row.exam_question).question,
     question_number |-> ExamQuestionById(row.exam_question).number,
     answer          |-> row.answer,
     is_correct      |-> is_correct(row)]

\* One serialized submission.  The prefetched answers carry no ordering, so
\* they are kept as a set.
submission_data(sub, answersTbl) ==
    [id                 |-> sub.id,
     exam               |-> sub.exam,
     student            |-> sub.student,
     created_at         |-> sub.created_at,
     answers            |-> {answer_data(answersTbl[i]) :
                                i \in {k \in 1..Len(answersTbl) :
                                          answersTbl[k].submission = sub.id}},
     total_questions    |-> get_total_questions(sub),
     correct_answers    |-> get_correct_answers(sub, answersTbl),
     correct_percentage |-> get_correct_percentage(sub, answersTbl)]

(***************************************************************************)
(* Python int(text) on a query-string value.  A text is a tuple of         *)
(* one-character strings.  int() strips surrounding whitespace, takes an   *)
(* optional sign, then decimal digits with single underscores between      *)
(* digits; anything else raises ValueError.                                *)
(***************************************************************************)
DigitChars == <<"0", "1", "2", "3", "4", "5", "6", "7", "8", "9">>

IsDigit(c) == c \in Range(DigitChars)

DigitValue(c) == (CHOOSE k \in 1..Len(DigitChars) : DigitChars[k] = c) - 1

RECURSIVE strip(_)
strip(text) ==
    IF text = <<>> THEN text
    ELSE IF Head(text) = " " THEN strip(Tail(text))
    ELSE IF text[Len(text)] = " " THEN strip(SubSeq(text, 1, Len(text) - 1))
    ELSE text

RECURSIVE DigitsValue(_)
DigitsValue(body) ==
    IF body = <<>> THEN 0
    ELSE LET n == Len(body)
             rest == DigitsValue(SubSeq(body, 1, n - 1))
         IN  IF body[n] = "_" THEN rest ELSE rest * 10 + DigitValue(body[n])

\* Variant: parses the leading digits and ignores the rest, 0 when there
\* are none (JavaScript's parseInt, C's atoi).
RECURSIVE LeadingDigits(_)
LeadingDigits(t) ==
    IF t = <<>> \/ ~IsDigit(Head(t)) THEN <<>>
    ELSE <<Head(t)>> \o LeadingDigits(Tail(t))

int_leading_digits(text) ==
    [ok |-> TRUE, value |-> DigitsValue(LeadingDigits(strip(text)))]

int(text) ==
    LET t      == strip(text)
        signed == t # <<>> /\ Head(t) \in {"+", "-"}
        body   == IF signed THEN Tail(t) ELSE t
        wellformed ==
            /\ body # <<>>
            /\ IsDigit(body[1])
            /\ IsDigit(body[Len(body)])
            /\ \A i \in 1..Len(body) : IsDigit(body[i]) \/ body[i] = "_"
            /\ \A i \in 1..(Len(body) - 1) : ~(body[i] = "_" /\ body[i + 1] = "_")
    IN  IF ~wellformed THEN [ok |-> FALSE, value |-> 0]
        ELSE [ok |-> TRUE,
              value |-> IF signed /\ Head(t) = "-"
                        THEN 0 - DigitsValue(body) ELSE DigitsValue(body)]

\* request.query_params.get(name): None when the parameter is absent.
None == [given |-> FALSE, text |-> <<>>]

Param(text) == [given |-> TRUE, text |-> text]

(***************************************************************************)
(* ExamFetchAPIView.get: filters, then order_by("-created_at").            *)
(***************************************************************************)
\* Positions of the ExamSubmission rows the filters keep.
filter_rows(tbl, exam_given, exam_id_int, student_given, student_id_int) ==
    {i \in 1..Len(tbl) :
        /\ exam_given => tbl[i].exam = exam_id_int
        /\ student_given => tbl[i].student = student_id_int}

\* ORDER BY created_at DESC names no second key: rows with equal created_at
\* come back in whatever order the store picks.  The set of every result
\* order the store may produce for the kept positions.
order_by_created_at_desc(tbl, kept) ==
    {ord \in [1..Cardinality(kept) -> kept] :
        /\ \A a, b \in 1..Cardinality(kept) : ord[a] = ord[b] => a = b
        /\ \A a \in 1..(Cardinality(kept) - 1) :
              tbl[ord[a]].created_at >= tbl[ord[a + 1]].created_at}

\* The outcome of get() before serialization: an error, or the kept rows.
fetch_filter(tbl, exam_id, student_id) ==
    LET e == int(exam_id.text)
        s == int(student_id.text)
    IN  IF exam_id.given /\ ~e.ok
        THEN [status |-> 400, error |-> "InvalidFilter", field |-> "exam_id", kept |-> {}]
        ELSE IF student_id.given /\ ~s.ok
        THEN [status |-> 400, error |-> "InvalidFilter", field |-> "student_id", kept |-> {}]
        ELSE IF student_id.given /\ s.value \notin StudentTable
        THEN [status |-> 400, error |-> "StudentNotFound", field |-> "student_id", kept |-> {}]
        ELSE [status |-> 200, error |-> NoError, field |-> "",
              kept |-> filter_rows(tbl, exam_id.given, e.value, student_id.given, s.value)]

(***************************************************************************)
(* State.                                                                  *)
(***************************************************************************)
VARIABLES
    submissions,   \* ExamSubmission table, rows in insertion order
    answers,       \* ExamSubmissionAnswer table, rows in insertion order
    pc,            \* "idle", or "created": a POST has committed its header row
    cur,           \* validated_data of the POST that passed validation last
    req,           \* body of the POST whose response is being sent
    query,         \* query parameters of the GET whose response is being sent
    resp           \* the response being sent, op = "none" when there is none

vars == <<submissions, answers, pc, cur, req, query, resp>>

NoRequest == [exam_id |-> 0, student_id |-> 0, answers |-> <<>>]

NoQuery == [exam_id |-> None, student_id |-> None]

NoCur == [exam |-> 0, student |-> 0, answers |-> <<>>, map |-> <<>>, submission |-> 0]

Response(op, status, error, payload, submission, body) ==
    [op |-> op, status |-> status, error |-> error, payload |-> payload,
     submission |-> submission, body |-> body]

NoResponse == Response("none", 0, NoError, <<>>, 0, <<>>)

\* A submission left over from before exam 3 lost its questions.
LegacySubmission == [id |-> 1, exam |-> 3, student |-> 2, created_at |-> 0]

(***************************************************************************)
(* Inputs.                                                                 *)
(***************************************************************************)
\* Exam 5 does not exist.
ExamIdInputs == 1..5

\* Student 3 does not exist; 0 is below min_value.
StudentIdInputs == 0..3

\* Question 3 belongs to no exam, 6 is no option code, and no request
\* answers question 4, so exam 4 is never answered in full.
AnswerInputs ==
    { [question_id |-> 1, answer |-> 1], [question_id |-> 1, answer |-> 2],
      [question_id |-> 2, answer |-> 2], [question_id |-> 3, answer |-> 1],
      [question_id |-> 1, answer |-> 6] }

Requests ==
    [exam_id : ExamIdInputs, student_id : StudentIdInputs,
     answers : SeqsUpTo(AnswerInputs, MaxAnswers)]

ExamIdParams ==
    {None, Param(<<"1">>), Param(<<" ", "2", " ">>), Param(<<"0">>),
     Param(<<"-", "1">>), Param(<<"1", "a">>)}

StudentIdParams ==
    {None, Param(<<"+", "1">>), Param(<<"2">>), Param(<<"1", "_", "0">>),
     Param(<<"0">>), Param(<<"-", "2">>), Param(<<"x">>)}

Init ==
    /\ submissions \in {<<>>, <<LegacySubmission>>}
    /\ answers = <<>>
    /\ pc = "idle"
    /\ cur = NoCur
    /\ req = NoRequest
    /\ query = NoQuery
    /\ resp = NoResponse

(***************************************************************************)
(* ExamSubmissionAPIView.post when is_valid() fails: the 400 response.     *)
(***************************************************************************)
PostRejected ==
    /\ pc = "idle"
    /\ resp = NoResponse
    /\ Len(submissions) < MaxSubmissions
    /\ \E data \in Requests :
          LET v == is_valid(data)
          IN  /\ v.error # NoError
              /\ resp' = Response("submit", 400, v.error, v.payload, 0, <<>>)
              /\ req' = data
    /\ UNCHANGED <<submissions, answers, pc, cur, query>>

(***************************************************************************)
(* post when is_valid() passes, first part: serializer.save() up to        *)
(* ExamSubmission.objects.create, which commits the header row.            *)
(***************************************************************************)
PostCreate ==
    /\ pc = "idle"
    /\ resp = NoResponse
    /\ Len(submissions) < MaxSubmissions
    /\ \E data \in Requests, now \in timezone_now(submissions) :
          LET v == is_valid(data)
          IN  /\ v.error = NoError
              /\ submissions' =
                     create_submission(submissions, data.exam_id, data.student_id, now)
              /\ cur' = [exam |-> data.exam_id, student |-> data.student_id,
                         answers |-> data.answers, map |-> v.map,
                         submission |-> Len(submissions) + 1]
    /\ pc' = "created"
    /\ UNCHANGED <<answers, req, query, resp>>

(***************************************************************************)
(* post, second part: bulk_create of the answer rows, then the re-read and *)
(* the 201 response.  An IntegrityError leaves the request with a 500.     *)
(***************************************************************************)
PostBulkCreate ==
    /\ pc = "created"
    /\ resp = NoResponse
    /\ LET r == bulk_create(answers, answer_rows(cur.submission, cur.answers, cur.map))
           sub == CHOOSE s \in Range(submissions) : s.id = cur.submission
       IN  /\ answers' = r.table
           /\ resp' = IF r.ok
                      THEN Response("submit", 201, NoError, <<>>, cur.submission,
                                    <<submission_data(sub, r.table)>>)
                      ELSE Response("submit", 500, "IntegrityError", <<>>,
                                    cur.submission, <<>>)
    /\ pc' = "idle"
    /\ UNCHANGED <<submissions, cur, req, query>>

\* bulk_create raises for a reason outside this code (connection lost, a
\* concurrently deleted ExamQuestion): no answer row is written and the
\* exception propagates as a 500.
PostStoreFailure ==
    /\ pc = "created"
    /\ resp = NoResponse
    /\ resp' = Response("submit", 500, "StoreFailure", <<>>, cur.submission, <<>>)
    /\ pc' = "idle"
    /\ UNCHANGED <<submissions, answers, cur, req, query>>

(***************************************************************************)
(* ExamFetchAPIView.get.  It may run between the two commits of a POST.    *)
(***************************************************************************)
Get ==
    /\ resp = NoResponse
    /\ \E exam_id \in ExamIdParams, student_id \in StudentIdParams :
          LET f == fetch_filter(submissions, exam_id, student_id)
          IN  /\ query' = [exam_id |-> exam_id, student_id |-> student_id]
              /\ IF f.status # 200
                 THEN resp' = Response("fetch", f.status, f.error, <<>>, 0, <<>>)
                 ELSE \E ord \in order_by_created_at_desc(submissions, f.kept) :
                         resp' = Response("fetch", 200, NoError, <<>>, 0,
                                     [k \in 1..Len(ord) |->
                                         submission_data(submissions[ord[k]], answers)])
    /\ UNCHANGED <<submissions, answers, pc, cur, req>>

\* The response leaves the server; the handler's frame is gone.
ResponseSent ==
    /\ resp # NoResponse
    /\ resp' = NoResponse
    /\ req' = NoRequest
    /\ query' = NoQuery
    /\ cur' = IF pc = "idle" THEN NoCur ELSE cur
    /\ UNCHANGED <<submissions, answers, pc>>

Next ==
    \/ PostRejected
    \/ PostCreate
    \/ PostBulkCreate
    \/ PostStoreFailure
    \/ Get
    \/ ResponseSent

Spec == Init /\ [][Next]_vars

(***************************************************************************)
(* Vocabulary of the properties, stated on the tables and on the request   *)
(* rather than through the serializer's operators.                         *)
(***************************************************************************)
SlotsOf(exam) == {k \in 1..Len(ExamQuestionTable) : ExamQuestionTable[k].exam = exam}

QuestionsOf(exam) == {ExamQuestionTable[k].question : k \in SlotsOf(exam)}

Answered(data) == {data.answers[i].question_id : i \in 1..Len(data.answers)}

RowsOf(submission) == {i \in 1..Len(answers) : answers[i].submission = submission}

WellFormed(data) ==
    /\ data.exam_id > 0
    /\ data.student_id > 0
    /\ Len(data.answers) > 0
    /\ \A i \in 1..Len(data.answers) :
          data.answers[i].question_id > 0 /\ data.answers[i].answer \in {1, 2, 3, 4, 5}

ExamMissing(data) == data.exam_id \notin ExamTable

StudentMissing(data) == data.student_id \notin StudentTable

ExamEmpty(data) == SlotsOf(data.exam_id) = {}

Repeats(data) ==
    \E i, j \in 1..Len(data.answers) :
        i < j /\ data.answers[i].question_id = data.answers[j].question_id

HasUnknown(data) == \E q \in Answered(data) : q \notin QuestionsOf(data.exam_id)

HasMissing(data) == \E q \in QuestionsOf(data.exam_id) : q \notin Answered(data)

FailsSomeCheck(data) ==
    \/ ~WellFormed(data)
    \/ ExamMissing(data)
    \/ StudentMissing(data)
    \/ ExamEmpty(data)
    \/ Repeats(data)
    \/ HasUnknown(data)
    \/ HasMissing(data)

SubmitRejected == resp.op = "submit" /\ resp.status = 400

FetchListed == resp.op = "fetch" /\ resp.status = 200

\* A listed submission whose answer rows are in the store (an exam without
\* questions has none to store).
Stored(d) == d.answers # {} \/ d.total_questions = 0

Ascending(ids) == \A i, j \in 1..Len(ids) : i < j => ids[i] < ids[j]

(***************************************************************************)
(* C1.  All-or-nothing write: when the bulk insert of a validated Submit   *)
(* fails, the store holds neither the header row nor any answer row of     *)
(* that attempt once the request has ended.                                *)
(***************************************************************************)
C1_AllOrNothing ==
    (resp.op = "submit" /\ resp.status = 500) =>
        /\ \A i \in 1..Len(submissions) : submissions[i].id # resp.submission
        /\ RowsOf(resp.submission) = {}

(***************************************************************************)
(* C2.  Completeness: a submission that Submit accepted and persisted has  *)
(* as many answer rows as its exam has ExamQuestion slots.                 *)
(***************************************************************************)
C2_Completeness ==
    (resp.op = "submit" /\ resp.status = 201) =>
        \A i \in 1..Len(submissions) :
            submissions[i].id = resp.submission =>
                Cardinality(RowsOf(resp.submission))
                    = Cardinality(SlotsOf(submissions[i].exam))

(***************************************************************************)
(* C3.  A Submit whose data fails any validation check leaves both tables  *)
(* as they were: whichever way the handler's first step goes, the store    *)
(* changes only for data that passes every check.                          *)
(***************************************************************************)
C3_RejectedLeavesStore ==
    [][ /\ (resp = NoResponse /\ resp'.op = "submit" /\ resp'.status = 400
               /\ FailsSomeCheck(req'))
           => (submissions' = submissions /\ answers' = answers)
        /\ (pc = "idle" /\ pc' = "created"
               /\ FailsSomeCheck([exam_id |-> cur'.exam, student_id |-> cur'.student,
                                  answers |-> cur'.answers]))
           => (submissions' = submissions /\ answers' = answers) ]_vars

\* A request short of an answer is rejected while the store holds rows.
C3_Witness ==
    /\ SubmitRejected
    /\ HasMissing(req)
    /\ resp.error = "MissingAnswers"
    /\ submissions # <<>>
    /\ answers # <<>>

(***************************************************************************)
(* C4.  Uniqueness: no two persisted answer rows of one submission         *)
(* reference the same ExamQuestion slot.                                   *)
(***************************************************************************)
C4_Uniqueness ==
    \A i, j \in 1..Len(answers) :
        i < j => ~(/\ answers[i].submission = answers[j].submission
                   /\ answers[i].exam_question = answers[j].exam_question)

\* Two submissions answer the same slot, and one submission has two rows.
C4_Witness ==
    /\ \E i, j \in 1..Len(answers) :
          /\ answers[i].submission # answers[j].submission
          /\ answers[i].exam_question = answers[j].exam_question
    /\ \E i, j \in 1..Len(answers) :
          i < j /\ answers[i].submission = answers[j].submission

(***************************************************************************)
(* C5.  A header and its answer rows become visible together: no Fetch     *)
(* that runs while a Submit is in progress returns that Submit's           *)
(* submission with none or only some of its answers.                       *)
(***************************************************************************)
C5_VisibleTogether ==
    (FetchListed /\ pc = "created") =>
        \A k \in 1..Len(resp.body) :
            resp.body[k].id = cur.submission =>
                Cardinality(resp.body[k].answers) = Len(cur.answers)

(***************************************************************************)
(* C6.  The checks run in the order exam exists, student exists, exam has  *)
(* questions, no duplicate question_id, every question_id in the exam, no  *)
(* question unanswered; the error reported is that of the first check that *)
(* fails.                                                                  *)
(***************************************************************************)
C6_FirstFailingCheck ==
    (SubmitRejected /\ WellFormed(req)) =>
        /\ ExamMissing(req) => resp.error = "ExamNotFound"
        /\ (~ExamMissing(req) /\ StudentMissing(req)) => resp.error = "StudentNotFound"
        /\ (~ExamMissing(req) /\ ~StudentMissing(req) /\ ExamEmpty(req))
              => resp.error = "ExamHasNoQuestions"
        /\ (~ExamMissing(req) /\ ~StudentMissing(req) /\ ~ExamEmpty(req) /\ Repeats(req))
              => resp.error = "DuplicateAnswer"
        /\ (~ExamMissing(req) /\ ~StudentMissing(req) /\ ~ExamEmpty(req) /\ ~Repeats(req)
              /\ HasUnknown(req))
              => resp.error = "UnknownQuestionForExam"
        /\ (~ExamMissing(req) /\ ~StudentMissing(req) /\ ~ExamEmpty(req) /\ ~Repeats(req)
              /\ ~HasUnknown(req))
              => (resp.error = "MissingAnswers" /\ HasMissing(req))

\* A batch that repeats a question_id foreign to the exam.
C6_Witness ==
    /\ SubmitRejected
    /\ WellFormed(req)
    /\ Repeats(req)
    /\ HasUnknown(req)
    /\ resp.error = "DuplicateAnswer"

(***************************************************************************)
(* C7.  The UnknownQuestionForExam payload is the set of submitted ids not *)
(* in the exam, ascending; the MissingAnswers payload is the set of exam   *)
(* question ids without an answer, ascending.                              *)
(***************************************************************************)
C7_Payloads ==
    /\ (SubmitRejected /\ resp.error = "UnknownQuestionForExam") =>
          /\ Ascending(resp.payload)
          /\ Range(resp.payload) = Answered(req) \ QuestionsOf(req.exam_id)
    /\ (SubmitRejected /\ resp.error = "MissingAnswers") =>
          /\ Ascending(resp.payload)
          /\ Range(resp.payload) = QuestionsOf(req.exam_id) \ Answered(req)

\* Two foreign ids, submitted in descending order.
C7_Witness ==
    /\ SubmitRejected
    /\ resp.error = "UnknownQuestionForExam"
    /\ Len(resp.payload) = 2
    /\ Len(req.answers) = 2
    /\ req.answers[1].question_id > req.answers[2].question_id

(***************************************************************************)
(* C8.  Every submission a Submit or a Fetch returns has a                 *)
(* correct_percentage within [0, 100], correct_answers within              *)
(* [0, total_questions], and a percentage equal to                         *)
(* 100 * correct_answers / total_questions, which is 0.0 when              *)
(* total_questions is 0 and also when no answer is correct.                *)
(***************************************************************************)
Returned ==
    IF resp.op \in {"submit", "fetch"} THEN Range(resp.body) ELSE {}

C8_PercentageRange ==
    \A d \in Returned :
        /\ d.correct_percentage.den > 0
        /\ 0 <= d.correct_percentage.num
        /\ d.correct_percentage.num <= 100 * d.correct_percentage.den
        /\ d.total_questions = 0 => d.correct_percentage.num = 0
        /\ d.total_questions > 0 =>
              /\ 0 <= d.correct_answers
              /\ d.correct_answers <= d.total_questions
              /\ d.correct_percentage.num * d.total_questions
                    = 100 * d.correct_answers * d.correct_percentage.den
        /\ d.correct_percentage.num = 0
              <=> (d.total_questions = 0 \/ d.correct_answers = 0)

\* C8 as first stated: within [0, 100], and 0.0 exactly when
\* total_questions is 0.  Stated on the submissions whose answers are
\* stored, so that a header without its answers plays no part.
C8_ZeroOnlyWithoutQuestions ==
    \A d \in {x \in Returned : Stored(x)} :
        /\ 0 <= d.correct_percentage.num
        /\ d.correct_percentage.num <= 100 * d.correct_percentage.den
        /\ d.correct_percentage.num = 0 <=> d.total_questions = 0

\* One Fetch lists a submission of an exam without questions next to one
\* with every answer correct.
C8_Witness ==
    /\ FetchListed
    /\ \E d \in Returned : d.total_questions = 0 /\ d.correct_percentage.num = 0
    /\ \E d \in Returned :
          /\ d.total_questions = 2
          /\ d.correct_answers = 2
          /\ d.correct_percentage.num = 100 * d.correct_percentage.den

(***************************************************************************)
(* C9.  Fetch lists submissions by created_at descending, and submissions  *)
(* with equal created_at in their insertion order.  Stated on the lists    *)
(* whose submissions all have their answers stored.                        *)
(***************************************************************************)
C9_OrderedStableTies ==
    (FetchListed /\ \A d \in Returned : Stored(d)) =>
        \A a, b \in 1..Len(resp.body) :
            a < b =>
                /\ resp.body[a].created_at >= resp.body[b].created_at
                /\ resp.body[a].created_at = resp.body[b].created_at
                      => resp.body[a].id < resp.body[b].id

(***************************************************************************)
(* C10.  Fetch answers InvalidFilter, with no list, whenever exam_id is    *)
(* given and is not the text of an integer, and whenever student_id is     *)
(* given and is not the text of an integer.  Zero and negative integers    *)
(* are taken as filter values: such an exam_id matches no submission, such *)
(* a student_id is answered StudentNotFound.                               *)
(***************************************************************************)
\* The query texts that denote a positive integer, and those that denote
\* zero or a negative integer.
PositiveTexts ==
    {<<"1">>, <<"2">>, <<" ", "2", " ">>, <<"+", "1">>, <<"1", "_", "0">>}

NonPositiveTexts == {<<"0">>, <<"-", "1">>, <<"-", "2">>}

Malformed(param) ==
    param.given /\ param.text \notin PositiveTexts \cup NonPositiveTexts

NonPositive(param) == param.given /\ param.text \in NonPositiveTexts

C10_NonIntegerRejected ==
    resp.op = "fetch" =>
        /\ (Malformed(query.exam_id) \/ Malformed(query.student_id))
              => (resp.status = 400 /\ resp.error = "InvalidFilter" /\ resp.body = <<>>)
        /\ (~Malformed(query.exam_id) /\ NonPositive(query.student_id))
              => (resp.status = 400 /\ resp.error = "StudentNotFound" /\ resp.body = <<>>)
        /\ (NonPositive(query.exam_id) /\ ~query.student_id.given)
              => (resp.status = 200 /\ resp.body = <<>>)

\* C10 as first stated: a filter that is given and is not the text of a
\* positive integer is answered InvalidFilter.
C10_NonPositiveRejected ==
    resp.op = "fetch" =>
        /\ (query.exam_id.given /\ query.exam_id.text \notin PositiveTexts)
              => (resp.status = 400 /\ resp.error = "InvalidFilter" /\ resp.body = <<>>)
        /\ (query.student_id.given /\ query.student_id.text \notin PositiveTexts)
              => (resp.status = 400 /\ resp.error = "InvalidFilter" /\ resp.body = <<>>)

\* student_id=x on a store that holds submissions.
C10_Witness ==
    /\ resp.op = "fetch"
    /\ ~query.exam_id.given
    /\ query.student_id = Param(<<"x">>)
    /\ resp.error = "InvalidFilter"
    /\ submissions # <<>>

====
